---------------------------- MODULE Spec2Model ----------------------------
(***************************************************************************)
(* Model of the MP4 head trimmer (src/main.py): the Qt main window's       *)
(* handlers (scan, start, cancel, finished), the Worker that runs the job  *)
(* list on its own thread, and the external prober / trimmer processes.    *)
(*                                                                         *)
(* Conventions                                                             *)
(*  - A file name is a sequence of one-character strings; a path is a      *)
(*    sequence of parts (names), relative to its root.                     *)
(*  - Seconds are integers in hundredths (QDoubleSpinBox has 2 decimals);  *)
(*    the comparison of main.py:179 is modelled in exact decimal           *)
(*    arithmetic, not in binary floating point.                            *)
(*  - The output root is a directory tree disjoint from the source tree.   *)
(*  - Worker signals cross to the GUI thread through a queue; only the     *)
(*    slot of `finished` changes state that the handlers read, so only     *)
(*    that delivery is a separate step.  The slots _update_progress,       *)
(*    _update_overall and _append_log write display widgets only.          *)
(***************************************************************************)
EXTENDS Integers, Sequences, FiniteSets, TLC

VARIABLES
    \* ---- MainWindow
    ffmpeg_paths,        \* TRUE iff locate_ffmpeg returned a pair
    source_edit,         \* text of the source line edit
    output_edit,         \* text of the output line edit
    trim_spin,           \* value of the spin box, hundredths of a second
    include_subfolders,  \* check box
    preserve_structure,  \* check box
    overwrite_check,     \* check box
    file_paths,          \* self.file_paths
    table,               \* column 0 of self.table, one display name per row
    scan_button,         \* enabled flags of the three buttons
    start_button,
    cancel_button,
    dialog,              \* title of the message box the last handler showed
    worker,              \* TRUE iff self.worker is not None
    \* ---- Worker (the object self.worker refers to)
    jobs,                \* self.jobs
    trim_seconds,        \* self.trim_seconds
    overwrite,           \* self.overwrite
    cancel_flag,         \* self._cancel
    current_process,     \* self._current_process: "none", or the Popen's state
    pc,                  \* position of the worker thread in run()
    index,               \* loop variable of run(), 1-based
    duration,            \* local of run(): <<>> for None, else <<d>>
    result,              \* local of run(): <<>>, or <<returncode, stderr>>
    \* ---- environment
    prober,              \* the process subprocess.run waits on, if any
    disk,                \* output files: path -> "old" | "new"
    dirs,                \* output directories that exist
    \* ---- signals and observation
    emitted,             \* signals emitted since the head of the current
                         \* iteration of run(), in order
    statuses,            \* per job of this run: the statuses it was sent
    aggregates,          \* the (current, total) pairs sent in this run
    finished_queued,     \* `finished` emitted, its GUI slot not yet run
    active,              \* workers started whose run() has not emitted finished
    launched,            \* job indices whose trimmer was started (this run)
    terminated,          \* job indices whose trimmer cancel() terminated
    cancel_at,           \* <<index, pc>> at the first cancel() of this run
    old_cancel,          \* the run of the worker that self.worker replaced
                         \* had a job Canceled or a trimmer terminated
    \* ---- inputs of the pure-function specification SpecNames
    fn_input, fn_trim, fn_overwrite, fn_result

settingsVars ==
    <<ffmpeg_paths, source_edit, output_edit, trim_spin, include_subfolders,
      preserve_structure, overwrite_check>>

scanVars ==
    <<file_paths, table>>

buttonVars ==
    <<scan_button, start_button, cancel_button>>

workerVars ==
    <<worker, jobs, trim_seconds, overwrite, cancel_flag, current_process, pc,
      index, duration, result>>

envVars ==
    <<prober, disk, dirs>>

sigVars ==
    <<emitted, statuses, aggregates>>

obsVars ==
    <<finished_queued, active, launched, terminated, cancel_at, old_cancel>>

fnVars ==
    <<fn_input, fn_trim, fn_overwrite, fn_result>>

vars ==
    <<settingsVars, scanVars, buttonVars, dialog, workerVars, envVars, sigVars,
      obsVars, fnVars>>

---------------------------------------------------------------------------
(* Bounds of the model *)

\* number of .mp4 files directly in the source folder
MaxRootFiles == 1

\* longest file name drawn for build_output_name in SpecNames
MaxNameLen == 3

\* number of output files that may exist before the program starts
MaxPreexisting == 1

---------------------------------------------------------------------------
(* Characters, names, paths *)

\* the characters that occur in names, in code point order
CharOrder ==
    <<" ", ".", "0", "1", "2", "3", "4", "5", "6", "7", "8", "9",
      "E", "M", "P", "_", "a", "b", "c", "d", "e", "i", "m", "n", "p", "r",
      "s", "t", "x">>

Ord(c) ==
    CHOOSE i \in 1..Len(CharOrder) : CharOrder[i] = c

\* str.lower() on the characters of CharOrder
LowerChar(c) ==
    CASE c = "E" -> "e"
      [] c = "M" -> "m"
      [] c = "P" -> "p"
      [] OTHER -> c

Lower(s) ==
    [i \in 1..Len(s) |-> LowerChar(s[i])]

\* str.rfind("."), 1-based, 0 when there is none
RFindDot(s) ==
    IF \E i \in 1..Len(s) : s[i] = "."
    THEN CHOOSE i \in 1..Len(s) :
             s[i] = "." /\ \A j \in (i+1)..Len(s) : s[j] # "."
    ELSE 0

\* pathlib: PurePath.suffix of a final component
Suffix(name) ==
    LET i == RFindDot(name)
    IN  IF 1 < i /\ i < Len(name) THEN SubSeq(name, i, Len(name)) ELSE <<>>

\* pathlib: PurePath.stem of a final component
Stem(name) ==
    LET i == RFindDot(name)
    IN  IF 1 < i /\ i < Len(name) THEN SubSeq(name, 1, i - 1) ELSE name

\* PurePath.name: the final part of a path
Name(parts) ==
    IF Len(parts) = 0 THEN <<>> ELSE parts[Len(parts)]

\* PurePath.parent, as parts
Parent(parts) ==
    IF Len(parts) = 0 THEN <<>> ELSE SubSeq(parts, 1, Len(parts) - 1)

\* str < str, by code point
RECURSIVE StrLess(_, _)
StrLess(s, t) ==
    IF Len(t) = 0 THEN FALSE
    ELSE IF Len(s) = 0 THEN TRUE
    ELSE IF s[1] # t[1] THEN Ord(s[1]) < Ord(t[1])
    ELSE StrLess(Tail(s), Tail(t))

\* PurePath.__lt__: the parts compared as lists of strings
RECURSIVE PathLess(_, _)
PathLess(p, q) ==
    IF Len(q) = 0 THEN FALSE
    ELSE IF Len(p) = 0 THEN TRUE
    ELSE IF p[1] # q[1] THEN StrLess(p[1], q[1])
    ELSE PathLess(Tail(p), Tail(q))

\* list.sort() of a set of distinct paths
RECURSIVE SortPaths(_)
SortPaths(S) ==
    IF S = {} THEN <<>>
    ELSE LET m == CHOOSE x \in S : \A y \in S \ {x} : PathLess(x, y)
         IN  <<m>> \o SortPaths(S \ {m})

DigitChars ==
    <<"0", "1", "2", "3", "4", "5", "6", "7", "8", "9">>

\* decimal digits of a natural number
RECURSIVE NatStr(_)
NatStr(n) ==
    IF n < 10 THEN <<DigitChars[n + 1]>>
    ELSE NatStr(n \div 10) \o <<DigitChars[(n % 10) + 1]>>

\* f"{x:g}" for x = t/100 with 0 < t < 1000000: at most six significant
\* digits are needed, so %g prints the shortest fixed-point form
FormatG(t) ==
    LET whole == t \div 100
        frac  == t % 100
    IN  IF frac = 0 THEN NatStr(whole)
        ELSE IF frac % 10 = 0
             THEN NatStr(whole) \o <<".">> \o <<DigitChars[(frac \div 10) + 1]>>
             ELSE NatStr(whole) \o <<".">>
                  \o <<DigitChars[(frac \div 10) + 1], DigitChars[(frac % 10) + 1]>>

---------------------------------------------------------------------------
(* Pure functions of main.py *)

is_mp4(parts) ==
    Lower(Suffix(Name(parts))) = <<".", "m", "p", "4">>

build_output_name_no_suffix(input_path, trim, ow) ==
    Name(input_path)

build_output_name(input_path, trim, ow) ==
    IF ow THEN Name(input_path)
    ELSE Stem(Name(input_path)) \o <<"_", "t", "r", "i", "m">> \o FormatG(trim)
             \o <<"s">> \o Suffix(Name(input_path))

---------------------------------------------------------------------------
(* The file system the program runs on *)

Letters ==
    <<"a", "b", "c", "d", "e">>

\* i-th video of the source folder: a.mp4, b.MP4, c.mp4, ...
RootFile(i) ==
    <<Letters[i]>> \o (IF i % 2 = 0 THEN <<".", "M", "P", "4">>
                                    ELSE <<".", "m", "p", "4">>)

SubDir ==
    <<"s">>

NotesFile ==
    <<"n", ".", "t", "x", "t">>

OddDir ==
    <<"x", ".", "m", "p", "4">>

\* directory entries below a source folder, as rglob("*") yields them:
\* "videos" holds the videos, a text file, a folder named like a video and a
\* sub-folder with one video named like the first; "" is the working
\* directory (Path("") exists) and holds no video; "missing" does not exist
Tree(source) ==
    IF source = "videos"
    THEN {[parts |-> <<RootFile(i)>>, is_file |-> TRUE] : i \in 1..MaxRootFiles}
         \cup {[parts |-> <<NotesFile>>, is_file |-> TRUE],
               [parts |-> <<OddDir>>, is_file |-> FALSE],
               [parts |-> <<SubDir>>, is_file |-> FALSE],
               [parts |-> <<SubDir, RootFile(1)>>, is_file |-> TRUE]}
    ELSE IF source = ""
    THEN {[parts |-> <<NotesFile>>, is_file |-> TRUE]}
    ELSE {}

SourceTexts ==
    {"", "videos", "missing"}

OutputTexts ==
    {"", "out"}

\* Path(text).exists()
Exists(source) ==
    source # "missing"

\* values the spin box is set to (minimum 0.01, two decimals)
TrimChoices ==
    {150, 200}

DefaultTrim ==
    200

\* output files that may exist before the program starts
OldCandidates ==
    {<<build_output_name(<<RootFile(1)>>, DefaultTrim, ow)>> : ow \in BOOLEAN}

---------------------------------------------------------------------------
(* MainWindow *)

\* lines 348-358 of _scan_files: the sorted list of discovered files
Discover(source, recursive) ==
    LET entries == IF recursive THEN Tree(source)
                   ELSE {e \in Tree(source) : Len(e.parts) = 1}
        found   == {e.parts : e \in {x \in entries : x.is_file /\ is_mp4(x.parts)}}
        sorted  == SortPaths(found)
    IN  [i \in 1..Len(sorted) |-> [root |-> source, parts |-> sorted[i]]]

\* lines 362-367 of _scan_files: column 0 of the rows
DisplayNames(files, recursive) ==
    [i \in 1..Len(files) |->
        IF recursive THEN files[i].parts ELSE <<Name(files[i].parts)>>]

\* lines 412-424 of _start_processing: one FileJob per table row
PlanJobs(rows, source, trim, ow, recursive, preserve_box) ==
    LET preserve == preserve_box /\ recursive
    IN  [r \in 1..Len(rows) |->
            LET display_name == rows[r]
                relative_dir == IF preserve THEN Parent(display_name) ELSE <<>>
            IN  [input_path   |-> [root |-> source, parts |-> display_name],
                 output_path  |-> relative_dir
                                  \o <<build_output_name(display_name, trim, ow)>>,
                 display_name |-> display_name]]

\* state after MainWindow.__init__ and _build_ui; the toolchain is found or
\* not, and the output folder may already hold a file
InitWindow ==
    /\ ffmpeg_paths \in BOOLEAN
    /\ source_edit = ""
    /\ output_edit = ""
    /\ trim_spin = DefaultTrim
    /\ include_subfolders = FALSE
    /\ preserve_structure = FALSE
    /\ overwrite_check = FALSE
    /\ file_paths = <<>>
    /\ table = <<>>
    /\ scan_button = TRUE
    /\ start_button = TRUE
    /\ cancel_button = FALSE
    /\ dialog = "none"
    /\ worker = FALSE
    /\ jobs = <<>>
    /\ trim_seconds = 0
    /\ overwrite = FALSE
    /\ cancel_flag = FALSE
    /\ current_process = "none"
    /\ pc = "idle"
    /\ index = 0
    /\ duration = <<>>
    /\ result = <<>>
    /\ prober = "none"
    /\ \E old \in {S \in SUBSET OldCandidates : Cardinality(S) <= MaxPreexisting} :
          /\ disk = [p \in old |-> "old"]
          /\ dirs = {Parent(p) : p \in old}
    /\ emitted = <<>>
    /\ statuses = <<>>
    /\ aggregates = <<>>
    /\ finished_queued = FALSE
    /\ active = 0
    /\ launched = {}
    /\ terminated = {}
    /\ cancel_at = <<>>
    /\ old_cancel = FALSE

Init ==
    /\ InitWindow
    /\ fn_input = <<>>
    /\ fn_trim = DefaultTrim
    /\ fn_overwrite = FALSE
    /\ fn_result = <<>>

\* the widgets are edited before the first run: a worker holds its own
\* copies of the settings and the handlers that run during a run read none
\* of them; later runs reuse the settings of the first
Idle ==
    ~worker

\* the user types in or browses for the source folder (lines 330-335)
_choose_source ==
    /\ Idle
    /\ \E text \in SourceTexts :
          /\ source_edit' = text
          /\ output_edit' = IF text = "videos" THEN "out" ELSE output_edit
    /\ UNCHANGED <<ffmpeg_paths, trim_spin, include_subfolders,
                   preserve_structure, overwrite_check>>
    /\ UNCHANGED <<scanVars, buttonVars, dialog, workerVars, envVars, sigVars,
                   obsVars, fnVars>>

\* lines 337-340, or typing in the output line edit
_choose_output ==
    /\ Idle
    /\ \E text \in OutputTexts : output_edit' = text
    /\ UNCHANGED <<ffmpeg_paths, source_edit, trim_spin, include_subfolders,
                   preserve_structure, overwrite_check>>
    /\ UNCHANGED <<scanVars, buttonVars, dialog, workerVars, envVars, sigVars,
                   obsVars, fnVars>>

\* the include-subfolders box is clicked; its stateChanged slot (lines 325-328)
_toggle_preserve_structure ==
    /\ Idle
    /\ include_subfolders' = ~include_subfolders
    /\ preserve_structure' = IF include_subfolders' THEN preserve_structure
                                                    ELSE FALSE
    /\ UNCHANGED <<ffmpeg_paths, source_edit, output_edit, trim_spin,
                   overwrite_check>>
    /\ UNCHANGED <<scanVars, buttonVars, dialog, workerVars, envVars, sigVars,
                   obsVars, fnVars>>

\* the preserve-structure box is clicked; it is enabled only while
\* include-subfolders is checked (lines 270, 326)
SetPreserve ==
    /\ Idle
    /\ include_subfolders
    /\ preserve_structure' = ~preserve_structure
    /\ UNCHANGED <<ffmpeg_paths, source_edit, output_edit, trim_spin,
                   include_subfolders, overwrite_check>>
    /\ UNCHANGED <<scanVars, buttonVars, dialog, workerVars, envVars, sigVars,
                   obsVars, fnVars>>

\* the overwrite box is clicked (line 272)
SetOverwrite ==
    /\ Idle
    /\ overwrite_check' = ~overwrite_check
    /\ UNCHANGED <<ffmpeg_paths, source_edit, output_edit, trim_spin,
                   include_subfolders, preserve_structure>>
    /\ UNCHANGED <<scanVars, buttonVars, dialog, workerVars, envVars, sigVars,
                   obsVars, fnVars>>

\* the spin box is edited (lines 258-262)
SetTrim ==
    /\ Idle
    /\ \E t \in TrimChoices : trim_spin' = t
    /\ UNCHANGED <<ffmpeg_paths, source_edit, output_edit, include_subfolders,
                   preserve_structure, overwrite_check>>
    /\ UNCHANGED <<scanVars, buttonVars, dialog, workerVars, envVars, sigVars,
                   obsVars, fnVars>>

\* Scan is clicked (lines 342-377)
_scan_files ==
    /\ scan_button
    /\ IF ~Exists(source_edit)
       THEN /\ dialog' = "Missing Source"
            /\ UNCHANGED scanVars
       ELSE /\ file_paths' = Discover(source_edit, include_subfolders)
            /\ table' = DisplayNames(file_paths', include_subfolders)
            /\ dialog' = "none"
    /\ UNCHANGED <<settingsVars, buttonVars, workerVars, envVars, sigVars, obsVars,
                   fnVars>>

\* what the four precondition checks of _start_processing (lines 380-403)
\* let through: the scan of line 406 is reached
ReachesScan ==
    /\ ffmpeg_paths
    /\ Exists(source_edit)
    /\ output_edit # ""
    /\ trim_spin > 0

\* self.file_paths and the table rows after lines 405-406
FilesAtStart ==
    IF file_paths = <<>> THEN Discover(source_edit, include_subfolders)
    ELSE file_paths

RowsAtStart ==
    IF file_paths = <<>> THEN DisplayNames(FilesAtStart, include_subfolders)
    ELSE table

StartRejection_no_files_check ==
    IF ~ffmpeg_paths THEN "FFmpeg Missing"
    ELSE IF ~Exists(source_edit) THEN "Missing Source"
    ELSE IF output_edit = "" THEN "Missing Output"
    ELSE IF trim_spin <= 0 THEN "Invalid Trim"
    ELSE "none"

\* the message box _start_processing returns after (lines 380-410), "none"
\* when it goes on to build the jobs
StartRejection ==
    IF ~ffmpeg_paths THEN "FFmpeg Missing"
    ELSE IF ~Exists(source_edit) THEN "Missing Source"
    ELSE IF output_edit = "" THEN "Missing Output"
    ELSE IF trim_spin <= 0 THEN "Invalid Trim"
    ELSE IF FilesAtStart = <<>> THEN "No Files"
    ELSE "none"

StartButtons_start_left_enabled ==
    <<FALSE, TRUE, TRUE>>

\* lines 437-439: Scan, Start, Cancel enablement once a worker is set up
StartButtons ==
    <<FALSE, FALSE, TRUE>>

_start_processing_reuses_worker ==
    /\ start_button
    /\ dialog' = StartRejection
    /\ IF ReachesScan /\ file_paths = <<>>
       THEN /\ file_paths' = FilesAtStart
            /\ table' = RowsAtStart
       ELSE UNCHANGED scanVars
    /\ IF StartRejection # "none"
       THEN UNCHANGED <<buttonVars, workerVars, sigVars, obsVars>>
       ELSE /\ worker' = TRUE
            /\ jobs' = PlanJobs(RowsAtStart, source_edit, trim_spin,
                                overwrite_check, include_subfolders,
                                preserve_structure)
            /\ trim_seconds' = trim_spin
            /\ overwrite' = overwrite_check
            /\ UNCHANGED <<cancel_flag, current_process>>
            /\ pc' = "loop"
            /\ index' = 1
            /\ duration' = <<>>
            /\ result' = <<>>
            /\ scan_button' = StartButtons[1]
            /\ start_button' = StartButtons[2]
            /\ cancel_button' = StartButtons[3]
            /\ emitted' = <<>>
            /\ statuses' = [r \in 1..Len(RowsAtStart) |-> <<>>]
            /\ aggregates' = <<>>
            /\ finished_queued' = FALSE
            /\ active' = active + 1
            /\ launched' = {}
            /\ terminated' = {}
            /\ cancel_at' = <<>>
            /\ old_cancel' =
                  \/ terminated # {}
                  \/ \E j \in 1..Len(statuses) :
                        \E i \in 1..Len(statuses[j]) :
                           statuses[j][i][1] = "Canceled"
    /\ UNCHANGED <<settingsVars, envVars, fnVars>>

\* Start is clicked (lines 379-441)
_start_processing ==
    /\ start_button
    /\ dialog' = StartRejection
    /\ IF ReachesScan /\ file_paths = <<>>
       THEN /\ file_paths' = FilesAtStart
            /\ table' = RowsAtStart
       ELSE UNCHANGED scanVars
    /\ IF StartRejection # "none"
       THEN UNCHANGED <<buttonVars, workerVars, sigVars, obsVars>>
       ELSE /\ worker' = TRUE
            /\ jobs' = PlanJobs(RowsAtStart, source_edit, trim_spin,
                                overwrite_check, include_subfolders,
                                preserve_structure)
            /\ trim_seconds' = trim_spin
            /\ overwrite' = overwrite_check
            /\ cancel_flag' = FALSE
            /\ current_process' = "none"
            /\ pc' = "loop"
            /\ index' = 1
            /\ duration' = <<>>
            /\ result' = <<>>
            /\ scan_button' = StartButtons[1]
            /\ start_button' = StartButtons[2]
            /\ cancel_button' = StartButtons[3]
            /\ emitted' = <<>>
            /\ statuses' = [r \in 1..Len(RowsAtStart) |-> <<>>]
            /\ aggregates' = <<>>
            /\ finished_queued' = FALSE
            /\ active' = active + 1
            /\ launched' = {}
            /\ terminated' = {}
            /\ cancel_at' = <<>>
            /\ old_cancel' =
                  \/ terminated # {}
                  \/ \E j \in 1..Len(statuses) :
                        \E i \in 1..Len(statuses[j]) :
                           statuses[j][i][1] = "Canceled"
    /\ UNCHANGED <<settingsVars, envVars, fnVars>>

\* what is in flight for the current job when cancel() is called
InFlight ==
    IF pc \in {"idle", "loop", "end", "done", "mkdir_raised", "popen_raised"}
    THEN "boundary"
    ELSE IF prober = "running" THEN "prober"
    ELSE IF current_process = "running" THEN "trimmer"
    ELSE "nothing"

\* Worker.cancel (lines 97-100), called on the GUI thread
cancel ==
    /\ cancel_flag' = TRUE
    /\ IF current_process = "running"
       THEN /\ current_process' = "terminated"
            /\ terminated' = terminated \cup {index}
       ELSE UNCHANGED <<current_process, terminated>>
    /\ cancel_at' = IF cancel_at = <<>> THEN <<index, InFlight>> ELSE cancel_at

\* Cancel is clicked (lines 443-446)
_cancel_processing ==
    /\ cancel_button
    /\ IF worker
       THEN cancel
       ELSE UNCHANGED <<cancel_flag, current_process, terminated, cancel_at>>
    /\ UNCHANGED <<worker, jobs, trim_seconds, overwrite, pc, index, duration,
                   result>>
    /\ UNCHANGED <<finished_queued, active, launched, old_cancel>>
    /\ UNCHANGED <<settingsVars, scanVars, buttonVars, dialog, envVars, sigVars,
                   fnVars>>

\* the queued slot of Worker.finished runs on the GUI thread (lines 464-468)
_processing_finished ==
    /\ finished_queued
    /\ finished_queued' = FALSE
    /\ scan_button' = TRUE
    /\ start_button' = TRUE
    /\ cancel_button' = FALSE
    /\ UNCHANGED <<active, launched, terminated, cancel_at, old_cancel>>
    /\ UNCHANGED <<settingsVars, scanVars, dialog, workerVars, envVars, sigVars,
                   fnVars>>

---------------------------------------------------------------------------
(* External processes: what they print and how they exit *)

\* str.strip(), the blank standing for any white space
RECURSIVE StripLeft(_)
StripLeft(s) ==
    IF Len(s) > 0 /\ s[1] = " " THEN StripLeft(Tail(s)) ELSE s

RECURSIVE StripRight(_)
StripRight(s) ==
    IF Len(s) > 0 /\ s[Len(s)] = " " THEN StripRight(SubSeq(s, 1, Len(s) - 1))
    ELSE s

Strip(s) ==
    StripRight(StripLeft(s))

IsDigit(c) ==
    \E i \in 1..10 : DigitChars[i] = c

DigitVal(c) ==
    (CHOOSE i \in 1..10 : DigitChars[i] = c) - 1

RECURSIVE DigitsVal(_)
DigitsVal(s) ==
    IF Len(s) = 0 THEN 0
    ELSE 10 * DigitsVal(SubSeq(s, 1, Len(s) - 1)) + DigitVal(s[Len(s)])

\* float(text) for the decimal notations ffprobe prints, in hundredths:
\* <<v>>, or <<>> where float raises ValueError
ParseFloat(text) ==
    LET dot == RFindDot(text)
        int == IF dot = 0 THEN text ELSE SubSeq(text, 1, dot - 1)
        dec == IF dot = 0 THEN <<>> ELSE SubSeq(text, dot + 1, Len(text))
        ok  == /\ Len(int) > 0
               /\ \A i \in 1..Len(int) : IsDigit(int[i])
               /\ \A i \in 1..Len(dec) : IsDigit(dec[i])
               /\ Len(dec) <= 2
    IN  IF ~ok THEN <<>>
        ELSE <<100 * DigitsVal(int)
               + (IF Len(dec) = 0 THEN 0
                  ELSE IF Len(dec) = 1 THEN 10 * DigitVal(dec[1])
                  ELSE DigitsVal(dec))>>

\* standard output of the prober: nothing, white space, "N/A", or a duration
ProbeOutputs ==
    {<<>>, <<" ">>, <<"N", "/", "A", " ">>,
     <<"1", ".", "5", " ">>, <<"2", ".", "0", "0", " ">>,
     <<"2", ".", "0", "1", " ">>, <<"2", ".", "0", "2", " ">>}

\* standard error of the trimmer: blank, or a diagnostic line
StderrTexts ==
    {<<" ">>, <<"E", " ">>}

\* return codes of the trimmer: a terminated process reports the signal
\* (Popen.returncode is -SIGTERM); one told not to overwrite an existing
\* file (line 142) refuses
ExitCodes(process, may_write) ==
    IF process = "terminated" THEN {-15}
    ELSE IF ~may_write THEN {1}
    ELSE {0, 1}

---------------------------------------------------------------------------
(* Worker *)

Progress(row, status, message) ==
    <<"progress", row, status, message>>

Overall(current, total) ==
    <<"overall", current, total>>

Log(kind, detail) ==
    <<"log", kind, detail>>

Finished ==
    <<"finished">>

\* what `statuses` keeps of a per-job event: the status, and for Skipped the
\* head of its message
StatusOf(e) ==
    IF e[3] = "Skipped" THEN <<e[3], e[4][1]>> ELSE <<e[3], "">>

RECURSIVE Tally(_, _)
Tally(st, events) ==
    IF events = <<>> THEN st
    ELSE LET e == Head(events)
         IN  Tally(IF e[1] = "progress"
                   THEN [st EXCEPT ![e[2] + 1] = Append(@, StatusOf(e))]
                   ELSE st,
                   Tail(events))

RECURSIVE Pairs(_)
Pairs(events) ==
    IF events = <<>> THEN <<>>
    ELSE LET e == Head(events)
         IN  (IF e[1] = "overall" THEN <<(<<e[2], e[3]>>)>> ELSE <<>>)
             \o Pairs(Tail(events))

\* Signal.emit for each of `events`, after the signals in `before`
Emit(before, events) ==
    /\ emitted' = before \o events
    /\ statuses' = Tally(statuses, events)
    /\ aggregates' = aggregates \o Pairs(events)

\* line 179: the tolerance added to the trim offset, in hundredths
Epsilon ==
    1

CurrentJob ==
    jobs[index]

\* the `continue` statements and the end of the loop body: next iteration
NextIteration ==
    /\ index' = index + 1
    /\ pc' = "loop"

run_loop_continues_after_cancel ==
    /\ pc = "loop"
    /\ IF index > Len(jobs)
       THEN /\ pc' = "end"
            /\ Emit(<<>>, <<>>)
            /\ UNCHANGED index
       ELSE IF cancel_flag
       THEN /\ Emit(<<>>, <<Progress(index - 1, "Canceled",
                                     <<"Canceled by user">>)>>)
            /\ NextIteration
       ELSE /\ Emit(<<>>, <<Overall(index, Len(jobs)),
                            Progress(index - 1, "Processing", <<>>)>>)
            /\ pc' = "probe"
            /\ UNCHANGED index
    /\ duration' = <<>>
    /\ result' = <<>>
    /\ UNCHANGED <<worker, jobs, trim_seconds, overwrite, cancel_flag,
                   current_process>>
    /\ UNCHANGED <<settingsVars, scanVars, buttonVars, dialog, envVars, obsVars,
                   fnVars>>

\* lines 169-175: the head of the loop, up to the Processing event; the
\* values of `duration` and `result` are dead here and are dropped
run_loop ==
    /\ pc = "loop"
    /\ IF index > Len(jobs)
       THEN /\ pc' = "end"
            /\ Emit(<<>>, <<>>)
       ELSE IF cancel_flag
       THEN /\ Emit(<<>>, <<Progress(index - 1, "Canceled",
                                     <<"Canceled by user">>)>>)
            /\ pc' = "end"
       ELSE /\ Emit(<<>>, <<Overall(index, Len(jobs)),
                            Progress(index - 1, "Processing", <<>>)>>)
            /\ pc' = "probe"
    /\ duration' = <<>>
    /\ result' = <<>>
    /\ UNCHANGED <<worker, jobs, trim_seconds, overwrite, cancel_flag,
                   current_process, index>>
    /\ UNCHANGED <<settingsVars, scanVars, buttonVars, dialog, envVars, obsVars,
                   fnVars>>

\* lines 113-122 of _probe_duration: subprocess.run starts the prober, or
\* raises OSError, which is logged and gives None
probe_start ==
    /\ pc = "probe"
    /\ \/ /\ prober' = "running"
          /\ pc' = "probe_wait"
          /\ UNCHANGED sigVars
       \/ /\ Emit(emitted, <<Log("Failed to run ffprobe", index)>>)
          /\ pc' = "duration_check"
          /\ UNCHANGED prober
    /\ UNCHANGED <<worker, jobs, trim_seconds, overwrite, cancel_flag,
                   current_process, index, duration, result>>
    /\ UNCHANGED <<disk, dirs>>
    /\ UNCHANGED <<settingsVars, scanVars, buttonVars, dialog, obsVars, fnVars>>

\* lines 124-134 of _probe_duration: the prober has exited, its output is
\* stripped and parsed
probe_result ==
    /\ pc = "probe_wait"
    /\ prober' = "none"
    /\ \E stdout \in ProbeOutputs :
          LET duration_text == Strip(stdout)
          IN  IF duration_text = <<>>
              THEN /\ Emit(emitted, <<Log("ffprobe returned no duration", index)>>)
                   /\ duration' = <<>>
              ELSE IF ParseFloat(duration_text) = <<>>
              THEN /\ Emit(emitted, <<Log("Could not parse duration", index)>>)
                   /\ duration' = <<>>
              ELSE /\ duration' = ParseFloat(duration_text)
                   /\ UNCHANGED sigVars
    /\ pc' = "duration_check"
    /\ UNCHANGED <<worker, jobs, trim_seconds, overwrite, cancel_flag,
                   current_process, index, result>>
    /\ UNCHANGED <<disk, dirs>>
    /\ UNCHANGED <<settingsVars, scanVars, buttonVars, dialog, obsVars, fnVars>>

TooShort_strict(d, trim) ==
    d < trim + Epsilon

\* line 179
TooShort(d, trim) ==
    d <= trim + Epsilon

duration_check_skips_unknown ==
    /\ pc = "duration_check"
    /\ IF duration # <<>>
       THEN IF TooShort(duration[1], trim_seconds)
            THEN /\ Emit(emitted,
                         <<Progress(index - 1, "Skipped",
                                    <<"Duration", duration[1],
                                      "is shorter than trim", trim_seconds>>),
                           Log("Skipping", index)>>)
                 /\ NextIteration
            ELSE /\ pc' = "output_check"
                 /\ UNCHANGED <<sigVars, index>>
       ELSE /\ Emit(emitted,
                    <<Progress(index - 1, "Skipped", <<"Duration unknown">>),
                      Log("Skipping", index)>>)
            /\ NextIteration
    /\ UNCHANGED <<worker, jobs, trim_seconds, overwrite, cancel_flag,
                   current_process, duration, result>>
    /\ UNCHANGED <<settingsVars, scanVars, buttonVars, dialog, envVars, obsVars,
                   fnVars>>

\* lines 178-189: skip a file that is too short, warn when the duration is
\* unknown
duration_check ==
    /\ pc = "duration_check"
    /\ IF duration # <<>>
       THEN IF TooShort(duration[1], trim_seconds)
            THEN /\ Emit(emitted,
                         <<Progress(index - 1, "Skipped",
                                    <<"Duration", duration[1],
                                      "is shorter than trim", trim_seconds>>),
                           Log("Skipping", index)>>)
                 /\ NextIteration
            ELSE /\ pc' = "output_check"
                 /\ UNCHANGED <<sigVars, index>>
       ELSE /\ Emit(emitted,
                    <<Log("Warning: proceeding without duration info", index)>>)
            /\ pc' = "output_check"
            /\ UNCHANGED index
    /\ UNCHANGED <<worker, jobs, trim_seconds, overwrite, cancel_flag,
                   current_process, duration, result>>
    /\ UNCHANGED <<settingsVars, scanVars, buttonVars, dialog, envVars, obsVars,
                   fnVars>>

\* the directories Path.mkdir(parents=True) makes sure of
WithParents(dir) ==
    {SubSeq(dir, 1, i) : i \in 0..Len(dir)}

OutputBlocked_ignores_existing(path, ow) ==
    FALSE

\* line 192
OutputBlocked(path, ow) ==
    path \in DOMAIN disk /\ ~ow

\* lines 191-196: create the output folder, skip when the output exists and
\* must not be overwritten; mkdir raising ends run() with the exception
output_check ==
    /\ pc = "output_check"
    /\ \/ /\ dirs' = dirs \cup WithParents(Parent(CurrentJob.output_path))
          /\ IF OutputBlocked(CurrentJob.output_path, overwrite)
             THEN /\ Emit(emitted,
                          <<Progress(index - 1, "Skipped",
                                     <<"Output exists and overwrite is disabled">>),
                            Log("Skipping", index)>>)
                  /\ NextIteration
             ELSE /\ pc' = "ffmpeg"
                  /\ UNCHANGED <<sigVars, index>>
       \/ /\ Parent(CurrentJob.output_path) \notin dirs
          /\ pc' = "mkdir_raised"
          /\ UNCHANGED <<dirs, sigVars, index>>
    /\ UNCHANGED <<worker, jobs, trim_seconds, overwrite, cancel_flag,
                   current_process, duration, result>>
    /\ UNCHANGED <<prober, disk>>
    /\ UNCHANGED <<settingsVars, scanVars, buttonVars, dialog, obsVars, fnVars>>

ffmpeg_start_without_wait ==
    /\ pc = "ffmpeg"
    /\ \/ /\ current_process' = "running"
          /\ launched' = launched \cup {index}
          /\ result' = <<0, <<" ">>>>
          /\ pc' = "returned"
       \/ /\ pc' = "popen_raised"
          /\ UNCHANGED <<current_process, launched, result>>
    /\ UNCHANGED <<worker, jobs, trim_seconds, overwrite, cancel_flag, index,
                   duration>>
    /\ UNCHANGED <<finished_queued, active, terminated, cancel_at, old_cancel>>
    /\ UNCHANGED <<settingsVars, scanVars, buttonVars, dialog, envVars, sigVars,
                   fnVars>>

\* lines 157-162 of _run_ffmpeg: Popen starts the trimmer and the handle is
\* kept, or Popen raises OSError, which nothing catches
ffmpeg_start ==
    /\ pc = "ffmpeg"
    /\ \/ /\ current_process' = "running"
          /\ launched' = launched \cup {index}
          /\ pc' = "communicate"
       \/ /\ pc' = "popen_raised"
          /\ UNCHANGED <<current_process, launched>>
    /\ UNCHANGED <<worker, jobs, trim_seconds, overwrite, cancel_flag, index,
                   duration, result>>
    /\ UNCHANGED <<finished_queued, active, terminated, cancel_at, old_cancel>>
    /\ UNCHANGED <<settingsVars, scanVars, buttonVars, dialog, envVars, sigVars,
                   fnVars>>

\* lines 163-164 of _run_ffmpeg: the trimmer has exited and communicate()
\* returns; a failed or terminated trimmer may leave a partial output file
communicate ==
    /\ pc = "communicate"
    /\ LET out == CurrentJob.output_path
           may_write == overwrite \/ out \notin DOMAIN disk
           written == [p \in DOMAIN disk \cup {out} |->
                          IF p = out THEN "new" ELSE disk[p]]
       IN  \E returncode \in ExitCodes(current_process, may_write),
              stderr \in StderrTexts :
              /\ result' = <<returncode, stderr>>
              /\ IF returncode # 0
                 THEN disk' \in (IF may_write THEN {disk, written} ELSE {disk})
                 ELSE disk' = written
    /\ current_process' = "exited"
    /\ pc' = "returned"
    /\ UNCHANGED <<worker, jobs, trim_seconds, overwrite, cancel_flag, index,
                   duration>>
    /\ UNCHANGED <<prober, dirs>>
    /\ UNCHANGED <<settingsVars, scanVars, buttonVars, dialog, sigVars, obsVars,
                   fnVars>>

ResultEvents_raw_stderr(row, returncode, stderr) ==
    IF returncode # 0
    THEN <<Progress(row, "Failed", stderr), Log("ffmpeg failed", stderr)>>
    ELSE <<Progress(row, "Done", <<>>)>>

ResultEvents_failed_then_done(row, returncode, stderr) ==
    LET error_text == IF Strip(stderr) # <<>> THEN Strip(stderr)
                      ELSE <<"Unknown ffmpeg error">>
    IN  (IF returncode # 0
         THEN <<Progress(row, "Failed", error_text),
                Log("ffmpeg failed", error_text)>>
         ELSE <<>>)
        \o (IF Strip(stderr) # <<>> THEN <<Log("ffmpeg", Strip(stderr))>>
            ELSE <<>>)
        \o <<Progress(row, "Done", <<>>)>>

\* lines 199-208: the per-job event and log lines for a trimmer result
ResultEvents(row, returncode, stderr) ==
    IF returncode # 0
    THEN LET error_text == IF Strip(stderr) # <<>> THEN Strip(stderr)
                           ELSE <<"Unknown ffmpeg error">>
         IN  <<Progress(row, "Failed", error_text),
               Log("ffmpeg failed", error_text)>>
    ELSE (IF Strip(stderr) # <<>> THEN <<Log("ffmpeg", Strip(stderr))>>
          ELSE <<>>)
         \o <<Progress(row, "Done", <<>>)>>

handle_result_breaks_on_failure ==
    /\ pc = "returned"
    /\ Emit(emitted, ResultEvents(index - 1, result[1], result[2]))
    /\ IF result[1] # 0
       THEN pc' = "end" /\ UNCHANGED index
       ELSE NextIteration
    /\ UNCHANGED <<worker, jobs, trim_seconds, overwrite, cancel_flag,
                   current_process, duration, result>>
    /\ UNCHANGED <<settingsVars, scanVars, buttonVars, dialog, envVars, obsVars,
                   fnVars>>

\* lines 198-208 of run: the result of _run_ffmpeg decides Failed or Done,
\* and the loop goes on either way
handle_result ==
    /\ pc = "returned"
    /\ Emit(emitted, ResultEvents(index - 1, result[1], result[2]))
    /\ NextIteration
    /\ UNCHANGED <<worker, jobs, trim_seconds, overwrite, cancel_flag,
                   current_process, duration, result>>
    /\ UNCHANGED <<settingsVars, scanVars, buttonVars, dialog, envVars, obsVars,
                   fnVars>>

\* lines 210-211
FinalEvents(total) ==
    <<Overall(total, total), Finished>>

\* lines 210-211: the final aggregate event and the completion signal
run_end ==
    /\ pc = "end"
    /\ Emit(emitted, FinalEvents(Len(jobs)))
    /\ finished_queued' = TRUE
    /\ active' = active - 1
    /\ pc' = "done"
    /\ UNCHANGED <<worker, jobs, trim_seconds, overwrite, cancel_flag,
                   current_process, index, duration, result>>
    /\ UNCHANGED <<launched, terminated, cancel_at, old_cancel>>
    /\ UNCHANGED <<settingsVars, scanVars, buttonVars, dialog, envVars, fnVars>>

---------------------------------------------------------------------------
(* The program *)

Next ==
    \/ _choose_source
    \/ _choose_output
    \/ _toggle_preserve_structure
    \/ SetPreserve
    \/ SetOverwrite
    \/ SetTrim
    \/ _scan_files
    \/ _start_processing
    \/ _cancel_processing
    \/ _processing_finished
    \/ run_loop
    \/ probe_start
    \/ probe_result
    \/ duration_check
    \/ output_check
    \/ ffmpeg_start
    \/ communicate
    \/ handle_result
    \/ run_end

Spec ==
    Init /\ [][Next]_vars

---------------------------------------------------------------------------
(* build_output_name on its own: every short name over a small alphabet *)

NameAlphabet ==
    {"a", ".", "4"}

RECURSIVE NamesOfLen(_)
NamesOfLen(n) ==
    IF n = 0 THEN {<<>>}
    ELSE {Append(s, c) : s \in NamesOfLen(n - 1), c \in NameAlphabet}

NameInputs ==
    UNION {NamesOfLen(n) : n \in 1..MaxNameLen}

\* input paths: a file name, alone or below a folder
PathInputs ==
    {<<n>> : n \in NameInputs} \cup {<<SubDir, n>> : n \in NameInputs}

\* positive trim offsets within the spin box's range (0.01 .. 99.99)
TrimInputs ==
    {1, 10, 50, 150, 200, 1000, 1234, 9999}

InitNames ==
    /\ InitWindow
    /\ ffmpeg_paths
    /\ disk = <<>>
    /\ fn_input \in PathInputs
    /\ fn_trim \in TrimInputs
    /\ fn_overwrite \in BOOLEAN
    /\ fn_result = <<>>

call_build_output_name ==
    /\ fn_result = <<>>
    /\ fn_result' = build_output_name(fn_input, fn_trim, fn_overwrite)
    /\ UNCHANGED <<fn_input, fn_trim, fn_overwrite>>
    /\ UNCHANGED <<settingsVars, scanVars, buttonVars, dialog, workerVars,
                   envVars, sigVars, obsVars>>

NextNames ==
    call_build_output_name

SpecNames ==
    InitNames /\ [][NextNames]_vars

---------------------------------------------------------------------------
(* Vocabulary of the properties *)

TerminalStatuses ==
    {"Skipped", "Failed", "Done", "Canceled"}

\* job j (1-based) was sent status st in this run
HasStatus(j, st) ==
    \E i \in 1..Len(statuses[j]) : statuses[j][i][1] = st

\* job j was sent a terminal status in this run
Terminal(j) ==
    \E st \in TerminalStatuses : HasStatus(j, st)

\* job j was sent Skipped with a message starting with `reason`
SkippedFor(j, reason) ==
    \E i \in 1..Len(statuses[j]) : statuses[j][i] = <<"Skipped", reason>>

\* the per-job events with status st among the signals of this iteration
EventsWith(st) ==
    {i \in 1..Len(emitted) : emitted[i][1] = "progress" /\ emitted[i][3] = st}

\* a step of the worker thread inside run()
RunStep ==
    \/ run_loop
    \/ probe_start
    \/ probe_result
    \/ duration_check
    \/ output_check
    \/ ffmpeg_start
    \/ communicate
    \/ handle_result
    \/ run_end

\* the worker thread is scheduled: while run() can take a step (a statement
\* of run(), or an external process it waits on exiting) it takes one
FairSpec ==
    Spec /\ WF_vars(RunStep)

---------------------------------------------------------------------------
(* Properties *)

\* C1: when a run has ended and cancel() was first called while the trimmer
\* of job k was running, jobs 1..k have a terminal status, that trimmer was
\* terminated, and no job after k was sent any per-job event (each stays
\* Pending; none is Canceled).
C1_CancelStopsAfterInFlightJob ==
    (pc = "done" /\ cancel_at # <<>> /\ cancel_at[2] = "trimmer") =>
        LET k == cancel_at[1]
        IN  /\ \A j \in 1..k : Terminal(j)
            /\ k \in terminated
            /\ \A j \in (k + 1)..Len(jobs) : statuses[j] = <<>>

\* C2: a job whose trimmer was terminated by cancel() ends Canceled, never
\* Failed.
C2_InterruptedJobIsCanceled ==
    \A j \in terminated :
        Terminal(j) => HasStatus(j, "Canceled") /\ ~HasStatus(j, "Failed")

\* C4: when starting the trimmer for a job raises OSError, that job gets a
\* terminal status and run() goes on to the remaining jobs and the final
\* events.
C4_LaunchFailureIsPerJob ==
    pc = "popen_raised" => Terminal(index) /\ ENABLED RunStep

\* C3: a trimmer that exits nonzero makes its job Failed, with the stripped
\* stderr text or the generic message when that is empty, and the loop goes
\* on to the next job; a run that was never cancelled ends with every job in
\* a terminal status.
C3_FailureIsolation ==
    /\ \A i \in EventsWith("Failed") :
          /\ result # <<>>
          /\ result[1] # 0
          /\ emitted[i][4] = (IF Strip(result[2]) = <<>>
                              THEN <<"Unknown ffmpeg error">>
                              ELSE Strip(result[2]))
          /\ pc = "loop"
          /\ index = emitted[i][2] + 2
    /\ (pc = "loop" /\ result # <<>> /\ result[1] # 0) =>
          EventsWith("Failed") # {}
    /\ (pc = "done" /\ cancel_at = <<>>) =>
          \A j \in 1..Len(jobs) : Terminal(j)

\* a job failed and the job after it went through to Done, with no cancel
C3_Witness ==
    /\ Len(jobs) >= 2
    /\ cancel_at = <<>>
    /\ HasStatus(1, "Failed")
    /\ HasStatus(2, "Done")

\* run() has returned or was left by an exception: the worker thread runs
\* no further step of it
RunEnded ==
    pc \in {"done", "popen_raised", "mkdir_raised"}

C5_AfterLoop ==
    /\ RunEnded =>
          /\ Len(emitted) >= 2
          /\ emitted[Len(emitted)][1] = "finished"
          /\ emitted[Len(emitted) - 1][1] = "overall"
          /\ emitted[Len(emitted) - 1][2] = Len(jobs)
          /\ emitted[Len(emitted) - 1][3] = Len(jobs)
          /\ Cardinality({i \in 1..Len(emitted) : emitted[i][1] = "finished"}) = 1
          /\ aggregates[Len(aggregates)] = <<Len(jobs), Len(jobs)>>
    /\ ~RunEnded => \A i \in 1..Len(emitted) : emitted[i][1] # "finished"
    /\ pc = "end" => ENABLED run_end

\* C5: every run that has ended has emitted the aggregate event
\* (total, total) and then `finished` as its last two signals; `finished` is
\* emitted once and not before the end, and the worker emits nothing after
\* it.
C5_FinalEventsOnce ==
    /\ []C5_AfterLoop
    /\ [][(RunEnded /\ RunEnded') => UNCHANGED sigVars]_vars

C7_SkippedState ==
    /\ \A i \in EventsWith("Skipped") :
          emitted[i][4][1] = "Output exists and overwrite is disabled" =>
              /\ ~overwrite
              /\ jobs[emitted[i][2] + 1].output_path \in DOMAIN disk
              /\ (emitted[i][2] + 1) \notin launched
              /\ pc = "loop"
              /\ index = emitted[i][2] + 2
    /\ (pc \in {"ffmpeg", "communicate"} /\ ~overwrite) =>
          CurrentJob.output_path \notin DOMAIN disk

C7_SkipStep ==
    (/\ pc = "output_check"
     /\ pc' # pc
     /\ ~overwrite
     /\ CurrentJob.output_path \in DOMAIN disk) =>
        /\ pc' = "loop"
        /\ \E i \in 1..Len(statuses'[index]) :
               statuses'[index][i] =
                   <<"Skipped", "Output exists and overwrite is disabled">>
        /\ disk' = disk
        /\ launched' = launched

\* C7 as stated: with overwrite off, every job that was executed while its
\* output path existed (it exists and the job's own trimmer did not write it)
\* was Skipped with the output-exists message.
C7_ExecutedWithExistingOutput ==
    (/\ pc = "loop"
     /\ index >= 2
     /\ ~overwrite
     /\ jobs[index - 1].output_path \in DOMAIN disk
     /\ (index - 1) \notin launched) =>
        SkippedFor(index - 1, "Output exists and overwrite is disabled")

\* C7 amended: with overwrite off, a job that reaches its output check (the
\* duration check did not skip it) while its output path exists, also when
\* an earlier job of the run wrote it, is Skipped with the output-exists
\* message, its trimmer is never started, and no file is changed by the skip.
C7_ExistingOutputSkipped ==
    /\ []C7_SkippedState
    /\ [][C7_SkipStep]_vars

\* the second job was skipped because the first job of the same run wrote
\* the same output path
C7_Witness ==
    /\ Len(jobs) >= 2
    /\ jobs[1].output_path = jobs[2].output_path
    /\ HasStatus(1, "Done")
    /\ SkippedFor(2, "Output exists and overwrite is disabled")

\* C8: at most one worker is in flight; while one is, Start and Scan are
\* disabled, so no handler can create another.
C8_OneRunInFlight ==
    /\ active <= 1
    /\ active = 1 => ~start_button /\ ~scan_button
    /\ pc \notin {"idle", "done"} => active = 1

\* a second run is in flight after an earlier run wrote an output file
C8_Witness ==
    /\ active = 1
    /\ pc = "probe"
    /\ index = 1
    /\ \E p \in DOMAIN disk : disk[p] = "new"

\* the preconditions C9 names: toolchain not located, source folder missing,
\* trim offset not positive, no file to process
PreconditionViolated ==
    \/ ~ffmpeg_paths
    \/ ~Exists(source_edit)
    \/ trim_spin <= 0
    \/ (file_paths = <<>> /\ Discover(source_edit, include_subfolders) = <<>>)

\* C9: a step taken while Start is enabled and a precondition is violated
\* (a click on Start included) creates no worker, starts no thread, emits no
\* signal and leaves the three buttons as they were.
C9_RejectedStartCreatesNothing ==
    [][(start_button /\ PreconditionViolated) =>
           UNCHANGED <<workerVars, sigVars, obsVars, buttonVars>>]_vars

\* Start was clicked with no file to process and was rejected
C9_Witness ==
    /\ dialog = "No Files"
    /\ ~worker
    /\ pc = "idle"
    /\ start_button
    /\ ~cancel_button

\* C10: with overwrite off the output name differs from the input file's
\* name; with overwrite on it is the input file's name.
C10_OutputNameCollisionFree ==
    fn_result # <<>> =>
        IF fn_overwrite THEN fn_result = Name(fn_input)
        ELSE fn_result # Name(fn_input)

\* a.4 with offset 1.5 and overwrite off becomes a_trim1.5s.4
C10_Witness ==
    /\ fn_input = <<(<<"a", ".", "4">>)>>
    /\ fn_trim = 150
    /\ ~fn_overwrite
    /\ fn_result = <<"a", "_", "t", "r", "i", "m", "1", ".", "5", "s", ".", "4">>

\* C11: the call of cancel() that sets the flag leaves no external process
\* of the current job running: a prober or trimmer that was in flight has
\* been terminated by the call.
C11_CancelTerminatesInFlightProcess ==
    [][(~cancel_flag /\ cancel_flag') =>
           (prober' # "running" /\ current_process' # "running")]_vars

\* the jobs of this run that were sent Canceled
CanceledJobs ==
    {j \in 1..Len(statuses) : HasStatus(j, "Canceled")}

C12_CanceledState ==
    /\ \A j \in CanceledJobs :
          /\ statuses[j] = <<(<<"Canceled", "">>)>>
          /\ j \notin launched
          /\ index = j
          /\ pc \in {"end", "done"}
          /\ \A i \in (j + 1)..Len(statuses) : statuses[i] = <<>>
    /\ Cardinality(CanceledJobs) <= 1

C12_CancelCheckStep ==
    (/\ pc = "loop"
     /\ pc' # pc
     /\ index <= Len(jobs)
     /\ cancel_flag) =>
        /\ pc' = "end"
        /\ statuses'[index] = <<(<<"Canceled", "">>)>>
        /\ launched' = launched
        /\ prober' = prober
        /\ current_process' = current_process

\* C12: when the loop head reaches job j with the cancel flag set, job j is
\* sent Canceled and nothing else (no Processing, no prober, no trimmer), the
\* loop is left, no job after j is sent a per-job event, and at most one job
\* of a run is Canceled.
C12_CanceledBeforeStart ==
    /\ []C12_CanceledState
    /\ [][C12_CancelCheckStep]_vars

\* a run of two jobs was cancelled before its first job started: the first
\* job is Canceled, the second was never touched
C12_Witness ==
    /\ pc = "done"
    /\ Len(jobs) = 2
    /\ statuses[1] = <<(<<"Canceled", "">>)>>
    /\ statuses[2] = <<>>

\* C13 as stated: the statuses sent for a job are nothing, or Processing, or
\* Processing followed by one terminal status (Skipped, Failed, Done or
\* Canceled), and nothing after that.
C13_ProcessingBeforeTerminal ==
    \A j \in 1..Len(statuses) :
        LET s == statuses[j]
        IN  /\ Len(s) <= 2
            /\ Len(s) >= 1 => s[1][1] = "Processing"
            /\ Len(s) = 2 => s[2][1] \in TerminalStatuses

\* C13 amended: the statuses sent for a job are nothing, or Processing, or
\* Processing followed by exactly one of Skipped, Failed, Done, or Canceled
\* alone (a job is Canceled without having been Processing); nothing follows
\* a terminal status.
C13_JobStateMachine ==
    \A j \in 1..Len(statuses) :
        LET s == statuses[j]
        IN  \/ s = <<>>
            \/ Len(s) = 1 /\ s[1][1] \in {"Processing", "Canceled"}
            \/ /\ Len(s) = 2
               /\ s[1][1] = "Processing"
               /\ s[2][1] \in {"Skipped", "Failed", "Done"}

\* both paths in one run: the first job went Processing then Done, the
\* second was Canceled from Pending
C13_Witness ==
    /\ Len(statuses) = 2
    /\ statuses[1] = <<(<<"Processing", "">>), (<<"Done", "">>)>>
    /\ statuses[2] = <<(<<"Canceled", "">>)>>

\* an external process started by the worker has not been waited for yet
ProberAlive ==
    prober = "running"

TrimmerAlive ==
    current_process \in {"running", "terminated"}

\* C14: jobs are executed in list order, one at a time: a job is sent events
\* or has its trimmer started only when every job before it has a terminal
\* status, the per-job events of an iteration are in non-decreasing row
\* order, at most one external process is alive, and while one is alive the
\* worker is waiting for it (subprocess.run, communicate) and for nothing
\* else.
C14_SequentialExecution ==
    /\ ~(ProberAlive /\ TrimmerAlive)
    /\ ProberAlive => pc = "probe_wait"
    /\ TrimmerAlive => pc = "communicate"
    /\ pc \in {"probe_wait", "communicate"} =>
          statuses[index] = <<(<<"Processing", "">>)>>
    /\ \A j \in 1..Len(statuses) :
          (statuses[j] # <<>> \/ j \in launched) =>
              /\ j <= index
              /\ \A i \in 1..(j - 1) : Terminal(i)
    /\ \A a, b \in 1..Len(emitted) :
          (a < b /\ emitted[a][1] = "progress" /\ emitted[b][1] = "progress") =>
              emitted[a][2] <= emitted[b][2]

\* the prober of the second job runs after the trimmer of the first job has
\* exited and the first job is Done
C14_Witness ==
    /\ index = 2
    /\ ProberAlive
    /\ current_process = "exited"
    /\ 1 \in launched
    /\ HasStatus(1, "Done")

\* the log lines of this iteration of kind `kind`
LogsOf(kind) ==
    {i \in 1..Len(emitted) : emitted[i][1] = "log" /\ emitted[i][2] = kind}

\* the three ways _probe_duration returns None, by the line it logs
ProbeFailureLogs ==
    {"Failed to run ffprobe", "ffprobe returned no duration",
     "Could not parse duration"}

C15_UnknownDurationState ==
    /\ (duration = <<>>
        /\ pc \in {"output_check", "ffmpeg", "communicate", "returned"}) =>
          /\ statuses[index] = <<(<<"Processing", "">>)>>
          /\ LogsOf("Warning: proceeding without duration info") # {}
          /\ \E kind \in ProbeFailureLogs : LogsOf(kind) # {}
    /\ \A i \in EventsWith("Skipped") :
          emitted[i][4][1] = "Duration" => duration # <<>>
    /\ (pc = "loop" /\ index >= 2 /\ duration = <<>> /\ result # <<>>) =>
          statuses[index - 1] =
              <<(<<"Processing", "">>),
                (<<(IF result[1] = 0 THEN "Done" ELSE "Failed"), "">>)>>

C15_UnknownDurationStep ==
    /\ (pc \in {"probe", "probe_wait"} /\ pc' # pc /\ duration' = <<>>) =>
          /\ pc' \in {"probe_wait", "duration_check"}
          /\ pc' = "duration_check" =>
                emitted'[Len(emitted')][2] \in ProbeFailureLogs
    /\ (pc = "duration_check" /\ pc' # pc /\ duration = <<>>) =>
          /\ pc' = "output_check"
          /\ statuses' = statuses
    /\ (/\ pc = "output_check"
        /\ pc' # pc
        /\ duration = <<>>
        /\ (overwrite \/ CurrentJob.output_path \notin DOMAIN disk)) =>
          pc' \in {"ffmpeg", "mkdir_raised"}

\* C15: when the probe cannot be run, prints nothing or prints something
\* that is no number, the reason and a warning are logged, the job is
\* neither Skipped nor Failed for it, the worker goes on to the output check
\* and from there to the trimmer, and the trimmer's return code decides
\* between Done and Failed.
C15_ProbeFailureIsNotFatal ==
    /\ []C15_UnknownDurationState
    /\ [][C15_UnknownDurationStep]_vars

\* a job whose probe output could not be parsed was trimmed and is Done
C15_Witness ==
    /\ pc = "loop"
    /\ index >= 2
    /\ duration = <<>>
    /\ result # <<>>
    /\ result[1] = 0
    /\ LogsOf("Could not parse duration") # {}
    /\ HasStatus(index - 1, "Done")

\* C16: while a run is in flight (Scan is disabled, so self.file_paths is the
\* most recent discovery), the job list has one descriptor per discovered
\* file, in the same order, and each descriptor's input_path is that file.
C16_JobsMatchDiscovery ==
    active = 1 =>
        /\ Len(jobs) = Len(file_paths)
        /\ \A i \in 1..Len(jobs) : jobs[i].input_path = file_paths[i]

C17_FreshRunState ==
    /\ cancel_flag => cancel_at # <<>>
    /\ CanceledJobs # {} => cancel_at # <<>>
    /\ terminated # {} => cancel_at # <<>>

C17_FlagStep ==
    /\ active' = active + 1 =>
          /\ ~cancel_flag'
          /\ current_process' = "none"
          /\ pc' = "loop"
          /\ index' = 1
    /\ (cancel_flag /\ active' # active + 1) => cancel_flag'

\* C17: a run begins with the cancel flag false and no process handle; within
\* a run the flag only goes from false to true; the flag is set, a job is
\* Canceled and a trimmer is terminated only when cancel() was called in
\* that same run, whatever happened in earlier runs.
C17_RunStateIsFresh ==
    /\ []C17_FreshRunState
    /\ [][C17_FlagStep]_vars

\* the run before this one was cancelled; this run was not, and it completed
\* with every job in a terminal status and a trimmer started
C17_Witness ==
    /\ old_cancel
    /\ pc = "done"
    /\ ~cancel_flag
    /\ cancel_at = <<>>
    /\ launched # {}
    /\ \A j \in 1..Len(jobs) : Terminal(j)

\* C18: once cancel() has set the flag, no step of the run starts a trimmer.
C18_NoTrimmerAfterCancel ==
    [][cancel_flag => launched' \subseteq launched]_vars

\* C19: distinct jobs of a planned job list have distinct output paths.
C19_DistinctOutputPaths ==
    \A i, j \in 1..Len(jobs) :
        i # j => jobs[i].output_path # jobs[j].output_path

\* the run has completed, every job was sent Processing and then exactly one
\* of Skipped, Failed, Done, and the aggregate events were (1, N), ..., (N, N)
\* and the final (N, N)
CompletedUncancelled ==
    /\ pc = "done"
    /\ \A j \in 1..Len(jobs) :
          /\ Len(statuses[j]) = 2
          /\ statuses[j][1][1] = "Processing"
          /\ statuses[j][2][1] \in {"Skipped", "Failed", "Done"}
    /\ aggregates = [i \in 1..(Len(jobs) + 1) |->
                        IF i <= Len(jobs) THEN <<i, Len(jobs)>>
                        ELSE <<Len(jobs), Len(jobs)>>]

\* C20: a run in flight is eventually cancelled or eventually completes with
\* every job sent Processing and then exactly one of Skipped, Failed, Done
\* and with the aggregate events in increasing order; so a run that is never
\* cancelled, and whose processes all exit, completes this way.
C20_UncancelledRunCompletes ==
    (active = 1) ~> (cancel_flag \/ CompletedUncancelled)

=============================================================================
